---- MODULE Spec2Model ----
(***************************************************************************)
(* SplitMix64 seed engine and buffer protocol of hedgehog-splitmix-wasm.   *)
(*                                                                         *)
(* Machine integers keep their width.  A u64 is the sequence of its 8      *)
(* bytes, least significant first (what u64::to_le_bytes returns), a u32   *)
(* its 4 bytes, a u128 its 16 bytes.  Lengths and indices of the buffer    *)
(* (usize values below 2^31) are naturals.                                 *)
(***************************************************************************)
EXTENDS Naturals, Sequences, FiniteSets, TLC

VARIABLES
    usize_bits,       \* pointer width of the build target: 32 (wasm32) or 64
    overflow_checks,  \* whether the build panics on integer overflow
    seed,             \* the Seed value the caller holds
    result,           \* the last call: its name, receiver, arguments and return
    adopted           \* how many returned seeds the caller has adopted

vars == <<usize_bits, overflow_checks, seed, result, adopted>>

----------------------------------------------------------------------------
(* Fixed-width unsigned arithmetic on little-endian byte sequences.        *)

Byte == 0..255

Zero(w) == [i \in 1..w |-> 0]

\* n as a w-byte integer, for a natural n < 2^31
FromNat(n, w) ==
    [i \in 1..w |-> CASE i = 1 -> n % 256
                      [] i = 2 -> (n \div 256) % 256
                      [] i = 3 -> (n \div 65536) % 256
                      [] i = 4 -> (n \div 16777216) % 256
                      [] OTHER -> 0]

\* zero-extension (`as u64`, `as u128`) and truncation (`as u32`, `as usize`)
Resize(a, w) == [i \in 1..w |-> IF i <= Len(a) THEN a[i] ELSE 0]

Limb(a, i) == IF i >= 1 /\ i <= Len(a) THEN a[i] ELSE 0

RECURSIVE LtFrom(_, _, _)
LtFrom(a, b, i) ==
    IF i = 0 THEN FALSE
    ELSE IF Limb(a, i) # Limb(b, i) THEN Limb(a, i) < Limb(b, i)
    ELSE LtFrom(a, b, i - 1)

\* a < b as unsigned integers (of any widths)
Lt(a, b) == LtFrom(a, b, IF Len(a) > Len(b) THEN Len(a) ELSE Len(b))

Eq(a, b) == ~Lt(a, b) /\ ~Lt(b, a)

IsZero(a) == \A i \in 1..Len(a) : a[i] = 0

RECURSIVE AddFrom(_, _, _, _)
AddFrom(a, b, i, carry) ==
    IF i > Len(a) THEN <<carry>>
    ELSE LET s == a[i] + Limb(b, i) + carry
         IN  <<s % 256>> \o AddFrom(a, b, i + 1, s \div 256)

\* the exact sum of a and b, one byte wider than a
FullAdd(a, b) == AddFrom(a, b, 1, 0)

wrapping_add(a, b) == SubSeq(FullAdd(a, b), 1, Len(a))

AddOverflows(a, b) == FullAdd(a, b)[Len(a) + 1] # 0

\* sum of a[i] * b[k - i + 1] over the i from `i` to `last`
RECURSIVE ColumnSum(_, _, _, _, _)
ColumnSum(a, b, k, i, last) ==
    IF i > last THEN 0
    ELSE a[i] * b[k - i + 1] + ColumnSum(a, b, k, i + 1, last)

\* bytes k..width of the product of a and b, by columns with carry
RECURSIVE MulFrom(_, _, _, _, _)
MulFrom(a, b, k, carry, width) ==
    IF k > width THEN <<>>
    ELSE LET first == IF k > Len(b) THEN k - Len(b) + 1 ELSE 1
             last  == IF k > Len(a) THEN Len(a) ELSE k
             s     == ColumnSum(a, b, k, first, last) + carry
         IN  <<s % 256>> \o MulFrom(a, b, k + 1, s \div 256, width)

\* the exact product of a and b, Len(a) + Len(b) bytes wide
FullMul(a, b) == MulFrom(a, b, 1, 0, Len(a) + Len(b))

wrapping_mul(a, b) == MulFrom(a, b, 1, 0, Len(a))

MulOverflows(a, b) ==
    LET product == FullMul(a, b)
    IN  \E i \in (Len(a) + 1)..(Len(a) + Len(b)) : product[i] # 0

RECURSIVE Pow2(_)
Pow2(n) == IF n = 0 THEN 1 ELSE 2 * Pow2(n - 1)

RECURSIVE XorBits(_, _, _)
XorBits(x, y, n) ==
    IF n = 0 THEN 0
    ELSE ((x + y) % 2) + 2 * XorBits(x \div 2, y \div 2, n - 1)

XorTable == [x \in 0..15 |-> [y \in 0..15 |-> XorBits(x, y, 4)]]

XorByte(x, y) == XorTable[x % 16][y % 16] + 16 * XorTable[x \div 16][y \div 16]

\* a ^ b
Xor(a, b) == [i \in 1..Len(a) |-> XorByte(a[i], b[i])]

\* a >> n
Shr(a, n) ==
    LET q == n \div 8
        r == n % 8
    IN  [i \in 1..Len(a) |->
            (Limb(a, i + q) \div Pow2(r))
            + (Limb(a, i + q + 1) % Pow2(r)) * Pow2(8 - r)]

\* a << n, truncated to the width of a
Shl(a, n) ==
    LET q == n \div 8
        r == n % 8
    IN  [i \in 1..Len(a) |->
            ((Limb(a, i - q) * Pow2(r)) % 256)
            + (Limb(a, i - q - 1) \div Pow2(8 - r))]

\* a | 1
OrOne(a) == [a EXCEPT ![1] = IF a[1] % 2 = 1 THEN a[1] ELSE a[1] + 1]

\* a & 1 == 1
LowBit(a) == a[1] % 2 = 1

----------------------------------------------------------------------------
(* Mixing core.                                                            *)

\* 0x9e3779b97f4a7c15
GOLDEN_GAMMA == <<21, 124, 74, 127, 185, 121, 55, 158>>
\* 0xbf58476d1ce4e5b9
MIX_MULTIPLIER_1 == <<185, 229, 228, 28, 109, 71, 88, 191>>
\* 0x94d049bb133111eb
MIX_MULTIPLIER_2 == <<235, 17, 49, 19, 187, 73, 208, 148>>

splitmix64_mix(z) ==
    LET z1 == wrapping_add(z, GOLDEN_GAMMA)
        z2 == wrapping_mul(Xor(z1, Shr(z1, 30)), MIX_MULTIPLIER_1)
        z3 == wrapping_mul(Xor(z2, Shr(z2, 27)), MIX_MULTIPLIER_2)
    IN  Xor(z3, Shr(z3, 31))

\* mix_gamma without the forced low bit
mix_gamma_Unforced(z) == wrapping_mul(splitmix64_mix(z), GOLDEN_GAMMA)

mix_gamma(z) == wrapping_mul(OrOne(splitmix64_mix(z)), GOLDEN_GAMMA)

----------------------------------------------------------------------------
(* Seed engine.                                                            *)

Seed(state, gamma) == [state |-> state, gamma |-> gamma]

\* Seed::new
Seed_new(value) ==
    LET state == splitmix64_mix(value)
        gamma == mix_gamma(state)
    IN  Seed(state, gamma)

from_parts(state, gamma) == Seed(state, gamma)

next_u64(self) ==
    LET new_state == wrapping_add(self.state, self.gamma)
        output    == splitmix64_mix(new_state)
        new_seed  == Seed(new_state, self.gamma)
    IN  [seed |-> new_seed, value |-> output]

\* next_bounded with the product truncated to 64 bits before the shift
next_bounded_Truncated(self, bound) ==
    LET res == next_u64(self)
        bounded_value == Shr(wrapping_mul(res.value, bound), 64)
    IN  [seed |-> res.seed, value |-> bounded_value]

next_bounded(self, bound) ==
    LET res == next_u64(self)
        bounded_value ==
            Resize(Shr(wrapping_mul(Resize(res.value, 16), Resize(bound, 16)), 64), 8)
    IN  [seed |-> res.seed, value |-> bounded_value]

next_bool(self) ==
    LET res == next_u64(self)
    IN  [seed |-> res.seed, value |-> LowBit(res.value)]

\* split whose left child takes the fresh gamma as well
split_LeftFreshGamma(self) ==
    LET new_state  == wrapping_add(self.state, self.gamma)
        output     == splitmix64_mix(new_state)
        new_gamma  == mix_gamma(output)
    IN  [left |-> Seed(new_state, new_gamma), right |-> Seed(output, new_gamma)]

split(self) ==
    LET new_state  == wrapping_add(self.state, self.gamma)
        output     == splitmix64_mix(new_state)
        new_gamma  == mix_gamma(output)
        left_seed  == Seed(new_state, self.gamma)
        right_seed == Seed(output, new_gamma)
    IN  [left |-> left_seed, right |-> right_seed]

\* the loop of next_bools_batch: `todo` iterations are left
RECURSIVE BatchLoop(_, _, _, _)
BatchLoop(todo, current_state, gamma, results) ==
    IF todo = 0 THEN [values |-> results, final_seed |-> Seed(current_state, gamma)]
    ELSE LET next_state == wrapping_add(current_state, gamma)
             output     == splitmix64_mix(next_state)
         IN  BatchLoop(todo - 1, next_state, gamma,
                       Append(results, IF LowBit(output) THEN 1 ELSE 0))

\* next_bools_batch that returns the seed it was called on
next_bools_batch_StaleSeed(self, count) ==
    [values     |-> BatchLoop(count, self.state, self.gamma, <<>>).values,
     final_seed |-> Seed(self.state, self.gamma)]

next_bools_batch(self, count) == BatchLoop(count, self.state, self.gamma, <<>>)

----------------------------------------------------------------------------
(* Errors.  A message is kept as its fixed text and the values formatted   *)
(* into it.                                                                *)

Error_new(kind, message) == [kind |-> kind, message |-> message]

buffer_too_large(size_mb, limit_mb) ==
    Error_new("BufferTooLarge",
              [text |-> "Buffer size {size_mb}MB exceeds practical limit of {limit_mb}MB",
               size_mb |-> size_mb, limit_mb |-> limit_mb])

buffer_too_small(required, provided) ==
    Error_new("BufferTooSmall",
              [text |-> "Buffer too small: {required} bytes required, {provided} provided",
               required |-> required, provided |-> provided])

invalid_format(format) ==
    Error_new("InvalidFormat", [text |-> "Unknown format: {format}", format |-> format])

----------------------------------------------------------------------------
(* Buffer protocol.                                                        *)

\* Option<u32>
None == [some |-> FALSE, value |-> Zero(4)]
Some(v) == [some |-> TRUE, value |-> v]
unwrap_or(opt, default) == IF opt.some THEN opt.value ELSE default

\* u32::MAX
U32_MAX == <<255, 255, 255, 255>>

\* from_u8 that takes every tag above 1 for the boolean format
from_u8_Lenient(value) ==
    CASE value = 0 -> [ok |-> TRUE, format |-> "U32LE"]
      [] value = 1 -> [ok |-> TRUE, format |-> "F64LE"]
      [] OTHER     -> [ok |-> TRUE, format |-> "BoolU8"]

\* DataFormat::from_u8: Ok(format) or Err(error)
from_u8(value) ==
    CASE value = 0 -> [ok |-> TRUE, format |-> "U32LE"]
      [] value = 1 -> [ok |-> TRUE, format |-> "F64LE"]
      [] value = 2 -> [ok |-> TRUE, format |-> "BoolU8"]
      [] OTHER     -> [ok |-> FALSE, error |-> invalid_format(value)]

bytes_per_element(format) ==
    CASE format = "U32LE"  -> 4
      [] format = "F64LE"  -> 8
      [] format = "BoolU8" -> 1

PRACTICAL_MAX_BUFFER == 1073741824

\* index of the highest set bit of a byte x > 0, and of a nonzero k
RECURSIVE ByteHighBit(_)
ByteHighBit(x) == IF x < 2 THEN 0 ELSE 1 + ByteHighBit(x \div 2)

RECURSIVE HighBit(_, _)
HighBit(k, i) ==
    IF k[i] # 0 THEN 8 * (i - 1) + ByteHighBit(k[i]) ELSE HighBit(k, i - 1)

\* the IEEE-754 binary64 bits of (k as f64) * 2^-53, for k < 2^53: exact, with
\* biased exponent 1023 + p - 53 and the 52 bits below k's leading bit p
F64Bits(k) ==
    IF IsZero(k) THEN Zero(8)
    ELSE LET p == HighBit(k, Len(k))
         IN  wrapping_add(Shl(k, 52 - p), Shl(FromNat(969 + p, 8), 52))

\* the bytes one loop iteration writes for `output`
Element(format, output, bound) ==
    CASE format = "U32LE" ->
            LET bound_u64 == Resize(unwrap_or(bound, U32_MAX), 8)
            IN  IF bound_u64 = Resize(U32_MAX, 8)
                THEN Resize(output, 4)
                ELSE Resize(Shr(wrapping_mul(Resize(output, 16),
                                             Resize(bound_u64, 16)), 64), 4)
      [] format = "F64LE"  -> F64Bits(Shr(output, 11))
      [] format = "BoolU8" -> IF LowBit(output) THEN <<1>> ELSE <<0>>

\* buffer[offset..offset + Len(bytes)].copy_from_slice(bytes), offset from 0,
\* on the bytes the model tracks
Write(buf, offset, bytes) ==
    [j \in 1..Len(buf) |->
        IF j > offset /\ j <= offset + Len(bytes) THEN bytes[j - offset] ELSE buf[j]]

Ok(new_seed, buf)  == [outcome |-> "Ok", seed |-> new_seed, buffer |-> buf]
Err(error, buf)    == [outcome |-> "Err", error |-> error, buffer |-> buf]
Panic(buf)         == [outcome |-> "Panic", buffer |-> buf]

\* The generation loop `for i in 0..count as usize` from iteration i on, with n
\* the usize loop bound.  An iteration whose slice ends past buffer.len()
\* panics.  Iterations that write only bytes the model does not track are not
\* unrolled: they panic iff more than (len - 9) / size elements are asked for,
\* and otherwise leave state = self.state + n * gamma.
RECURSIVE FillLoop(_, _, _, _, _, _, _, _)
FillLoop(i, n, format, bound, self, current_state, buf, len) ==
    LET size   == bytes_per_element(format)
        offset == 9 + i * size
    IN  IF ~Lt(FromNat(i, 8), n) THEN Ok(Seed(current_state, self.gamma), buf)
        ELSE IF offset + size > len THEN Panic(buf)
        ELSE IF offset >= Len(buf)
        THEN IF Lt(FromNat((len - 9) \div size, 8), n) THEN Panic(buf)
             ELSE Ok(Seed(wrapping_add(self.state,
                                       wrapping_mul(self.gamma, Resize(n, 8))),
                          self.gamma), buf)
        ELSE LET next_state == wrapping_add(current_state, self.gamma)
                 output     == splitmix64_mix(next_state)
             IN  FillLoop(i + 1, n, format, bound, self, next_state,
                          Write(buf, offset, Element(format, output, bound)), len)

\* fill_buffer that decodes the format tag before it looks at the buffer length
fill_buffer_FormatFirst(self, buf, len, format_u8, count, bound, usize, checks) ==
    LET w       == usize \div 8
        decoded == from_u8(format_u8)
        bpe     == FromNat(bytes_per_element(decoded.format), 8)
        header_size   == FromNat(9, 8)
        data_size     == wrapping_mul(count, bpe)
        required_size == wrapping_add(header_size, data_size)
        head1 == Write(buf, 0, <<format_u8>>)
        head2 == Write(head1, 1, count)
    IN  IF ~decoded.ok THEN Err(decoded.error, buf)
        ELSE IF len > PRACTICAL_MAX_BUFFER
        THEN Err(buffer_too_large(len \div 1048576, PRACTICAL_MAX_BUFFER \div 1048576), buf)
        ELSE IF checks /\ MulOverflows(count, bpe) THEN Panic(buf)
        ELSE IF checks /\ AddOverflows(header_size, data_size) THEN Panic(buf)
        ELSE IF Lt(FromNat(len, w), Resize(required_size, w))
        THEN Err(buffer_too_small(required_size, len), buf)
        ELSE IF len < 1 THEN Panic(buf)
        ELSE IF len < 9 THEN Panic(head1)
        ELSE FillLoop(0, Resize(count, w), decoded.format, bound, self,
                      self.state, head2, len)

\* Seed::fill_buffer on a buffer of `len` bytes whose tracked bytes are `buf`,
\* built for a target with `usize` bits and with overflow checks on or off
fill_buffer(self, buf, len, format_u8, count, bound, usize, checks) ==
    LET w       == usize \div 8
        decoded == from_u8(format_u8)
        bpe     == FromNat(bytes_per_element(decoded.format), 8)
        header_size   == FromNat(9, 8)
        data_size     == wrapping_mul(count, bpe)
        required_size == wrapping_add(header_size, data_size)
        head1 == Write(buf, 0, <<format_u8>>)
        head2 == Write(head1, 1, count)
    IN  IF len > PRACTICAL_MAX_BUFFER
        THEN Err(buffer_too_large(len \div 1048576, PRACTICAL_MAX_BUFFER \div 1048576), buf)
        ELSE IF ~decoded.ok THEN Err(decoded.error, buf)
        ELSE IF checks /\ MulOverflows(count, bpe) THEN Panic(buf)
        ELSE IF checks /\ AddOverflows(header_size, data_size) THEN Panic(buf)
        ELSE IF Lt(FromNat(len, w), Resize(required_size, w))
        THEN Err(buffer_too_small(required_size, len), buf)
        ELSE IF len < 1 THEN Panic(buf)
        ELSE IF len < 9 THEN Panic(head1)
        ELSE FillLoop(0, Resize(count, w), decoded.format, bound, self,
                      self.state, head2, len)

----------------------------------------------------------------------------
(* Inputs of the calls.                                                    *)

MaxAdopted == 1      \* returned seeds the caller adopts in a run
MaxBatch   == 3      \* largest count given to next_bools_batch
MaxCount   == 3      \* largest count given to fill_buffer that is written in full
MaxTracked == 33     \* bytes of a buffer whose contents are tracked

U64_MAX == <<255, 255, 255, 255, 255, 255, 255, 255>>

\* 2^n as a u64
Bit(n) == Shl(FromNat(1, 8), n)

SeedValues == {FromNat(1, 8), U64_MAX}

\* (state, gamma) pairs given to from_parts; nothing makes the gamma odd
Parts == {<<U64_MAX, FromNat(1, 8)>>, <<FromNat(5, 8), FromNat(2, 8)>>}

Bounds == {Zero(8), FromNat(1, 8), FromNat(10, 8), Bit(32), Bit(63), U64_MAX}

Formats == {0, 1, 2, 7, 255}

\* counts whose size computation leaves 64 bits (2^62 elements of 4 or 8
\* bytes, 2^64 - 9 of 1 byte) or 32 bits (2^30 of 4 bytes, 2^32 + 1 of 1 byte)
HugeCounts == {Bit(62), <<247, 255, 255, 255, 255, 255, 255, 255>>,
               Bit(30), wrapping_add(Bit(32), FromNat(1, 8))}

\* a count too long to unroll, which a buffer of 1 GiB holds
LongCounts == {FromNat(1000, 8)}

Counts == {FromNat(n, 8) : n \in 0..MaxCount} \cup LongCounts \cup HugeCounts

\* the bound matters to the u32 format only
FillBounds(format_u8) ==
    IF format_u8 = 0 THEN {None, Some(U32_MAX), Some(FromNat(100, 4))} ELSE {None}

\* short of a header; a header alone; a header with MaxCount booleans, with
\* MaxCount u32 values less one byte, with MaxCount u32 values, with MaxCount
\* doubles; the ceiling, one byte over it, and 1025 MiB + 7
BufferLens == {0, 5, 9, 9 + MaxCount, 8 + 4 * MaxCount, 9 + 4 * MaxCount,
               9 + 8 * MaxCount,
               PRACTICAL_MAX_BUFFER, PRACTICAL_MAX_BUFFER + 1, 1074790407}

\* a caller's buffer of `len` bytes before the call: every byte 0xAA
FreshBuffer(len) == [j \in 1..(IF len < MaxTracked THEN len ELSE MaxTracked) |-> 170]

----------------------------------------------------------------------------
(* The caller: it holds one seed, makes a call on it, and then adopts a    *)
(* seed the call returned or drops what it returned.  A caller of the      *)
(* buffer protocol fills a fresh buffer on every call.                     *)

NoArgs == <<>>

NoResult == [op |-> "none"]

Call(op, args, ret) == [op |-> op, self |-> seed, args |-> args, ret |-> ret]

\* the seeds a caller starts with: Seed::new(0), or made by from_parts
InitialSeeds == {Seed_new(Zero(8))} \cup {from_parts(p[1], p[2]) : p \in Parts}

Init ==
    /\ usize_bits \in {32, 64}
    /\ overflow_checks \in BOOLEAN
    /\ seed \in InitialSeeds
    /\ result = NoResult
    /\ adopted = 0

New ==
    /\ result.op = "none"
    /\ \E value \in SeedValues :
        result' = Call("new", <<value>>, Seed_new(value))
    /\ UNCHANGED <<usize_bits, overflow_checks, seed, adopted>>

FromParts ==
    /\ result.op = "none"
    /\ \E p \in Parts :
        result' = Call("from_parts", p, from_parts(p[1], p[2]))
    /\ UNCHANGED <<usize_bits, overflow_checks, seed, adopted>>

NextU64 ==
    /\ result.op = "none"
    /\ result' = Call("next_u64", NoArgs, next_u64(seed))
    /\ UNCHANGED <<usize_bits, overflow_checks, seed, adopted>>

NextBounded ==
    /\ result.op = "none"
    /\ \E bound \in Bounds :
        result' = Call("next_bounded", <<bound>>, next_bounded(seed, bound))
    /\ UNCHANGED <<usize_bits, overflow_checks, seed, adopted>>

NextBool ==
    /\ result.op = "none"
    /\ result' = Call("next_bool", NoArgs, next_bool(seed))
    /\ UNCHANGED <<usize_bits, overflow_checks, seed, adopted>>

Split ==
    /\ result.op = "none"
    /\ result' = Call("split", NoArgs, split(seed))
    /\ UNCHANGED <<usize_bits, overflow_checks, seed, adopted>>

NextBoolsBatch ==
    /\ result.op = "none"
    /\ \E count \in 0..MaxBatch :
        result' = Call("next_bools_batch", <<count>>, next_bools_batch(seed, count))
    /\ UNCHANGED <<usize_bits, overflow_checks, seed, adopted>>

FillBuffer ==
    /\ result.op = "none"
    /\ \E len \in BufferLens, format_u8 \in Formats, count \in Counts :
        \E bound \in FillBounds(format_u8) :
            result' = Call("fill_buffer",
                           [buffer |-> FreshBuffer(len), len |-> len,
                            format_u8 |-> format_u8, count |-> count, bound |-> bound],
                           fill_buffer(seed, FreshBuffer(len), len, format_u8, count,
                                       bound, usize_bits, overflow_checks))
    /\ UNCHANGED <<usize_bits, overflow_checks, seed, adopted>>

\* the seeds the last call returned
Returned ==
    CASE result.op \in {"new", "from_parts"} -> {result.ret}
      [] result.op \in {"next_u64", "next_bounded", "next_bool"} -> {result.ret.seed}
      [] result.op = "split" -> {result.ret.left, result.ret.right}
      [] result.op = "next_bools_batch" -> {result.ret.final_seed}
      [] result.op = "fill_buffer" ->
            IF result.ret.outcome = "Ok" THEN {result.ret.seed} ELSE {}
      [] OTHER -> {}

Adopt ==
    /\ adopted < MaxAdopted
    /\ \E s \in Returned : seed' = s
    /\ result' = NoResult
    /\ adopted' = adopted + 1
    /\ UNCHANGED <<usize_bits, overflow_checks>>

Drop ==
    /\ result.op # "none"
    /\ result' = NoResult
    /\ UNCHANGED <<usize_bits, overflow_checks, seed, adopted>>

\* a caller of the seed engine
EngineNext ==
    \/ New
    \/ FromParts
    \/ NextU64
    \/ NextBounded
    \/ NextBool
    \/ Split
    \/ NextBoolsBatch
    \/ Adopt
    \/ Drop

\* a caller of the buffer protocol
BufferNext ==
    \/ FillBuffer
    \/ Drop

Next == EngineNext \/ BufferNext

Spec == Init /\ [][Next]_vars

SpecEngine == Init /\ [][EngineNext]_vars

SpecBuffer == Init /\ [][BufferNext]_vars

----------------------------------------------------------------------------
(* Vocabulary of the properties.                                           *)

IsOdd(a) == a[1] % 2 = 1

Filled == result.op = "fill_buffer"

ValidTag(format_u8) == format_u8 \in {0, 1, 2}

ElementSize(format_u8) == CASE format_u8 = 0 -> 4 [] format_u8 = 1 -> 8 [] format_u8 = 2 -> 1

Returns(kind) == result.ret.outcome = "Err" /\ result.ret.error.kind = kind

\* 9 + count * bytes_per_element(format) as an integer, not reduced to any width
ExactRequired(count, format_u8) ==
    FullAdd(FullMul(count, FromNat(ElementSize(format_u8), 8)), FromNat(9, 8))

\* the seed after one advance of s
Successor(s) == Seed(wrapping_add(s.state, s.gamma), s.gamma)

\* the results of n successive next_bool calls from s, oldest first
RECURSIVE SuccessiveBools(_, _)
SuccessiveBools(s, n) ==
    IF n = 0 THEN <<>>
    ELSE <<next_bool(s)>> \o SuccessiveBools(next_bool(s).seed, n - 1)

\* the results of n successive next_u64 calls from s, oldest first
RECURSIVE SuccessiveU64(_, _)
SuccessiveU64(s, n) ==
    IF n = 0 THEN <<>>
    ELSE <<next_u64(s)>> \o SuccessiveU64(next_u64(s).seed, n - 1)

----------------------------------------------------------------------------
(* Properties.                                                             *)

\* C1: every fill_buffer call ends by returning a Seed or one of the errors
\* BufferTooLarge, InvalidFormat, BufferTooSmall; it never panics.
C1_FillBufferNeverPanics ==
    Filled =>
        \/ result.ret.outcome = "Ok"
        \/ Returns("BufferTooLarge")
        \/ Returns("InvalidFormat")
        \/ Returns("BufferTooSmall")

\* C2: a fill_buffer call that does not return a Seed leaves every byte of
\* the buffer as it was before the call.
C2_FailedFillLeavesBuffer ==
    (Filled /\ result.ret.outcome # "Ok") => result.ret.buffer = result.args.buffer

\* C3: for a buffer of at most 1 GiB and a tag in {0,1,2}, fill_buffer returns
\* BufferTooSmall exactly when the buffer is shorter than
\* 9 + count * bytes_per_element, and the error reports that size and the
\* buffer's length.
C3_TooSmallIffShort ==
    (Filled /\ result.args.len <= PRACTICAL_MAX_BUFFER /\ ValidTag(result.args.format_u8)) =>
        LET required == ExactRequired(result.args.count, result.args.format_u8)
        IN  /\ Returns("BufferTooSmall") <=> Lt(FromNat(result.args.len, 8), required)
            /\ Returns("BufferTooSmall") =>
                /\ Eq(result.ret.error.message.required, required)
                /\ result.ret.error.message.provided = result.args.len

\* C4 as stated: for every tag outside {0,1,2}, fill_buffer returns
\* InvalidFormat carrying the tag, whatever the buffer size and the count.
C4_InvalidFormatAlways ==
    (Filled /\ ~ValidTag(result.args.format_u8)) =>
        /\ Returns("InvalidFormat")
        /\ result.ret.error.message.format = result.args.format_u8

\* C4 amended: for every tag outside {0,1,2} and every buffer of at most
\* 1 GiB, fill_buffer returns InvalidFormat carrying the tag, whatever the count.
C4_InvalidFormatUnderCeiling ==
    (Filled /\ ~ValidTag(result.args.format_u8)
            /\ result.args.len <= PRACTICAL_MAX_BUFFER) =>
        /\ Returns("InvalidFormat")
        /\ result.ret.error.message.format = result.args.format_u8

\* tag 7 rejected on a buffer too short even for a header, with a count whose
\* size does not fit 64 bits
C4_Witness ==
    /\ Filled
    /\ result.args.format_u8 = 7
    /\ result.args.len = 5
    /\ result.args.count = Bit(62)
    /\ Returns("InvalidFormat")

\* C5: the first violated check decides: a buffer over 1 GiB gives
\* BufferTooLarge with both sizes in MiB, whatever the tag and the count;
\* otherwise an unknown tag gives InvalidFormat, whatever the count;
\* BufferTooSmall comes only from a buffer of at most 1 GiB with a known tag.
C5_FirstViolationWins ==
    Filled =>
        /\ result.args.len > PRACTICAL_MAX_BUFFER =>
              /\ Returns("BufferTooLarge")
              /\ result.ret.error.message.size_mb * 1048576 <= result.args.len
              /\ result.args.len - result.ret.error.message.size_mb * 1048576 < 1048576
              /\ result.ret.error.message.limit_mb = 1024
        /\ (result.args.len <= PRACTICAL_MAX_BUFFER /\ ~ValidTag(result.args.format_u8)) =>
              Returns("InvalidFormat")
        /\ Returns("BufferTooSmall") =>
              (result.args.len <= PRACTICAL_MAX_BUFFER /\ ValidTag(result.args.format_u8))

\* a buffer of 1025 MiB + 7 with an unknown tag and room for no element
C5_Witness ==
    /\ Filled
    /\ result.args.len = 1074790407
    /\ ~ValidTag(result.args.format_u8)
    /\ result.args.count = Bit(62)
    /\ Returns("BufferTooLarge")
    /\ result.ret.error.message.size_mb = 1025

\* C6 as stated: the seed Seed::new returns has an odd gamma, and both seeds
\* split returns have an odd gamma.
C6_GammaAlwaysOdd ==
    /\ result.op = "new" => IsOdd(result.ret.gamma)
    /\ result.op = "split" => (IsOdd(result.ret.left.gamma) /\ IsOdd(result.ret.right.gamma))

\* C6 amended: the seed Seed::new returns has an odd gamma; of the seeds split
\* returns, the right one has an odd gamma and the left one has the gamma of
\* the seed that was split, which is odd when that seed's gamma is odd.
C6_GammaOddFromOdd ==
    /\ result.op = "new" => IsOdd(result.ret.gamma)
    /\ result.op = "split" =>
          /\ IsOdd(result.ret.right.gamma)
          /\ result.ret.left.gamma = result.self.gamma
          /\ IsOdd(result.self.gamma) => IsOdd(result.ret.left.gamma)

\* a split of a seed that an earlier split returned as its right child
C6_Witness ==
    /\ result.op = "split"
    /\ result.self = split(Seed_new(Zero(8))).right
    /\ IsOdd(result.ret.left.gamma)
    /\ IsOdd(result.ret.right.gamma)

\* C7: next_bools_batch(s, n) returns the seed that n successive next_bool
\* calls from s end with, and as its i-th byte 1 or 0 as the i-th of those
\* calls returned true or false; for n = 0 no byte and s itself.
C7_BatchEquivalence ==
    result.op = "next_bools_batch" =>
        LET n     == result.args[1]
            steps == SuccessiveBools(result.self, n)
        IN  /\ Len(result.ret.values) = n
            /\ \A i \in 1..n :
                  result.ret.values[i] = (IF steps[i].value THEN 1 ELSE 0)
            /\ result.ret.final_seed = (IF n = 0 THEN result.self ELSE steps[n].seed)

\* a batch of MaxBatch booleans, not all of them equal
C7_Witness ==
    /\ result.op = "next_bools_batch"
    /\ result.args[1] = MaxBatch
    /\ \E i, j \in 1..MaxBatch : result.ret.values[i] # result.ret.values[j]
    /\ result.ret.final_seed # result.self

\* a count below 2^24 as a natural
ToNat(a) == a[1] + 256 * a[2] + 65536 * a[3]

\* the bytes C8 gives for one element: for tag 0 the low 32 bits of the output,
\* or (output * bound) >> 64 under a bound other than 2^32 - 1; for tag 2 the
\* low bit of the output
Encoded(format_u8, bound, output) ==
    CASE format_u8 = 0 ->
            IF ~bound.some \/ bound.value = U32_MAX
            THEN SubSeq(output, 1, 4)
            ELSE SubSeq(FullMul(output, Resize(bound.value, 8)), 9, 12)
      [] format_u8 = 2 -> IF LowBit(output) THEN <<1>> ELSE <<0>>

\* C8: a fill_buffer call that returns a Seed leaves the tag in byte 0, the
\* count in bytes 1..9, little-endian, and count elements behind them, the
\* i-th the encoding of the output of the i-th successive advance; the seed it
\* returns has the gamma of the seed it was called on and that seed's state
\* plus count * gamma (mod 2^64).
C8_FilledFrame ==
    (Filled /\ result.ret.outcome = "Ok") =>
        LET a     == result.args
            buf   == result.ret.buffer
            size  == ElementSize(a.format_u8)
            whole == (Len(buf) - 9) \div size
            k     == IF Lt(a.count, FromNat(whole, 8)) THEN ToNat(a.count) ELSE whole
            outs  == SuccessiveU64(result.self, k)
        IN  /\ buf[1] = a.format_u8
            /\ SubSeq(buf, 2, 9) = a.count
            /\ ~Lt(FromNat(a.len, 8), ExactRequired(a.count, a.format_u8))
            /\ a.format_u8 \in {0, 2} =>
                  \A i \in 1..k :
                      SubSeq(buf, 10 + (i - 1) * size, 9 + i * size)
                          = Encoded(a.format_u8, a.bound, outs[i].value)
            /\ result.ret.seed =
                  Seed(wrapping_add(result.self.state,
                                    wrapping_mul(a.count, result.self.gamma)),
                       result.self.gamma)

\* C9: next_u64, next_bounded and next_bool return as seed, and split returns
\* as left child, the seed with the state of the seed they were called on plus
\* its gamma (mod 2^64) and with its gamma; the seed they were called on is
\* what it was.
C9_SameSuccessor ==
    /\ result.op \in {"next_u64", "next_bounded", "next_bool"} =>
          (result.ret.seed = Successor(result.self) /\ seed = result.self)
    /\ result.op = "split" =>
          (result.ret.left = Successor(result.self) /\ seed = result.self)

\* a split of a seed whose state wraps to 0 on the advance
C9_Witness ==
    /\ result.op = "split"
    /\ result.self.state = U64_MAX
    /\ result.ret.left.state = Zero(8)
    /\ result.ret.left = next_bool(result.self).seed

\* C10: next_bounded(s, bound) returns the upper 64 bits of the 128-bit
\* product of next_u64(s)'s value and bound: a value below bound, and 0 when
\* bound is 0.
C10_BoundScaling ==
    result.op = "next_bounded" =>
        LET bound   == result.args[1]
            product == FullMul(next_u64(result.self).value, bound)
        IN  /\ result.ret.value = SubSeq(product, 9, 16)
            /\ ~IsZero(bound) => Lt(result.ret.value, bound)
            /\ IsZero(bound) => IsZero(result.ret.value)

\* a bound of 2^63, under which the value is the output shifted right by one
C10_Witness ==
    /\ result.op = "next_bounded"
    /\ result.args[1] = Bit(63)
    /\ ~IsZero(result.ret.value)
    /\ result.ret.value = Shr(next_u64(result.self).value, 1)

====
